---- MODULE Spec2Model ----
(***************************************************************************)
(* Model of src/pages/team/TeamForm.jsx: the create/edit form for a team   *)
(* member.  The state is the component's React state, the react-hook-form  *)
(* values, the DOM file input, the record query, the pending FileReader    *)
(* reads, the handleSubmit invocations and the create/update calls they    *)
(* issue, and the observable side effects (toasts, navigations).           *)
(***************************************************************************)
EXTENDS Integers, Sequences, FiniteSets, TLC

VARIABLES
    id,             \* useParams().id: NoId in create mode
    teamRecord,     \* the record the server holds for id (teamData.data on success)
    fetchStatus,    \* useGetTeamByIdQuery: "skipped", "pending", "success", "error"
    mounted,        \* the TeamForm component is mounted
    crashed,        \* an effect threw and React unmounted the tree
    formValues,     \* react-hook-form's values (what watch/handleSubmit read)
    fileInput,      \* the files held by the DOM <input type="file">
    existingImage,  \* useState(null)
    imagePreview,   \* useState(null)
    errors,         \* formState.errors after the last submit validation
    readers,        \* FileReader reads in flight, oldest first
    tasks,          \* handleSubmit invocations, in trigger order
    calls,          \* createTeam / updateTeam calls, in issue order
    toasts,         \* toast.success / toast.error notifications shown
    navs            \* navigate("/team") calls made by the form

vars == << id, teamRecord, fetchStatus, mounted, crashed, formValues,
           fileInput, existingImage, imagePreview, errors, readers, tasks,
           calls, toasts, navs >>

-----------------------------------------------------------------------------
(* Bounds of the model *)

\* handleSubmit invocations explored per form instance
MaxSubmits == 2
\* FileReader reads that may be pending at once
MaxReads == 1

-----------------------------------------------------------------------------
(* JavaScript values of the image field *)

NoId == "<no id>"
TextUndef == "<undefined>"
NoFile == "<no file>"
NoImage == "<no image field>"
NoPreview == "<null>"
NoMessage == "<no message>"

JsNull == [kind |-> "null", len |-> 0, v |-> ""]
JsUndefined == [kind |-> "undefined", len |-> 0, v |-> ""]
EmptyString == [kind |-> "string", len |-> 0, v |-> ""]
UrlString == [kind |-> "string", len |-> 5, v |-> "x.png"]
UrlObject == [kind |-> "object", len |-> -1, v |-> "url"]
PublicUrlObject == [kind |-> "object", len |-> -1, v |-> "public_url"]
EmptyFileList == [kind |-> "files", len |-> 0, v |-> NoFile]
FileList(f) == [kind |-> "files", len |-> 1, v |-> f]

\* the shapes teamData.data.image takes
ImageRefs == {JsNull, EmptyString, UrlString, UrlObject, PublicUrlObject}
\* local files the user can pick
Files == {"photo.png"}
\* text the user can type, and text a fetched record can hold
TextValues == {"", "John"}
FetchedTexts == {"John"}
\* err.data.message of a rejected call
ServerMessages == {NoMessage, "Name taken"}

Truthy(x) ==
    CASE x.kind = "null" -> FALSE
      [] x.kind = "undefined" -> FALSE
      [] x.kind = "string" -> x.len > 0
      [] OTHER -> TRUE

\* x.length > 0  (undefined > 0 is false)
LengthPositive(x) == x.kind \in {"string", "files"} /\ x.len > 0

\* x[0]: the first file of a FileList, the first character of a string
First(x) == IF x.kind = "string" THEN "x" ELSE x.v

\* s || ""
OrEmpty(s) == IF s = TextUndef THEN "" ELSE s


-----------------------------------------------------------------------------
(* The validation schema (lines 17-28) *)

\* ImageTest without the existingImage half of its first condition
ImageTestIdOnly(parent, value) ==
    IF parent.id # NoId
    THEN TRUE
    ELSE Truthy(value) /\ LengthPositive(value)

\* the "required" test of the image field: this.parent is the whole value object
ImageTest(parent, value) ==
    IF parent.id # NoId /\ Truthy(parent.existingImage)
    THEN TRUE
    ELSE Truthy(value) /\ LengthPositive(value)

\* the resolver's result: one message per field, "" when the field passes
Validate(values) ==
    [ name  |-> IF values.name = "" THEN "Name is required" ELSE "",
      image |-> IF ImageTest(values, values.image) THEN "" ELSE "Image is required" ]

NoErrors == [name |-> "", image |-> ""]

-----------------------------------------------------------------------------
(* useForm defaults and the reset effect *)

DefaultValues ==
    [ name |-> "", designation |-> "", department |-> "", description |-> "",
      image |-> JsNull, id |-> NoId, existingImage |-> JsUndefined ]

\* reset({...}) of the record effect: the fetched image goes into the image
\* field and into existingImage of the form values
ResetValues(routeId, data) ==
    [ name |-> OrEmpty(data.name),
      designation |-> OrEmpty(data.designation),
      department |-> OrEmpty(data.department),
      description |-> OrEmpty(data.description),
      image |-> data.image,
      id |-> routeId,
      existingImage |-> data.image ]

\* setExistingImage(image || null)
ExistingImageOf(image) == IF Truthy(image) THEN image ELSE JsNull

\* The preview effect on a new watchedImage.  A FileList with a file starts a
\* read; readAsDataURL of anything that is not a Blob (the first character of
\* a URL string) throws a TypeError inside the effect; otherwise the preview
\* is cleared.
PreviewEffect(watched, rs, preview) ==
    IF Truthy(watched) /\ LengthPositive(watched)
    THEN IF watched.kind = "files"
         THEN [readers |-> Append(rs, First(watched)), preview |-> preview, threw |-> FALSE]
         ELSE [readers |-> rs, preview |-> preview, threw |-> TRUE]
    ELSE [readers |-> rs, preview |-> NoPreview, threw |-> FALSE]

-----------------------------------------------------------------------------
(* onSubmit (lines 95-119) *)

\* BuildPayload without the length test: the image is appended when
\* formData.image is truthy
BuildPayloadTruthy(formData) ==
    [ name |-> formData.name,
      designation |-> formData.designation,
      department |-> formData.department,
      description |-> formData.description,
      image |-> IF Truthy(formData.image) THEN First(formData.image) ELSE NoImage ]

\* the multipart payload: four text fields, and the image when
\* formData.image && formData.image.length > 0
BuildPayload(formData) ==
    [ name |-> formData.name,
      designation |-> formData.designation,
      department |-> formData.department,
      description |-> formData.description,
      image |-> IF Truthy(formData.image) /\ LengthPositive(formData.image)
                THEN First(formData.image)
                ELSE NoImage ]

\* DispatchCall without the else: createTeam is called in edit mode too
DispatchCallBoth(routeId, payload, t) ==
    (IF routeId # NoId
     THEN << [kind |-> "update", id |-> routeId, payload |-> payload,
              status |-> "pending", task |-> t, message |-> NoMessage] >>
     ELSE << >>)
    \o << [kind |-> "create", id |-> NoId, payload |-> payload,
           status |-> "pending", task |-> t, message |-> NoMessage] >>

\* the calls one onSubmit issues: updateTeam when id is set, else createTeam
DispatchCall(routeId, payload, t) ==
    IF routeId # NoId
    THEN << [kind |-> "update", id |-> routeId, payload |-> payload,
             status |-> "pending", task |-> t, message |-> NoMessage] >>
    ELSE << [kind |-> "create", id |-> NoId, payload |-> payload,
             status |-> "pending", task |-> t, message |-> NoMessage] >>

SuccessText(kind) ==
    IF kind = "update" THEN "Team member updated successfully!"
    ELSE "Team member added successfully!"

\* err?.data?.message || "Failed to save team member"
ErrorText(msg) ==
    IF msg = NoMessage \/ msg = "" THEN "Failed to save team member" ELSE msg

-----------------------------------------------------------------------------
(* Derived render state *)

teamLoading == fetchStatus = "pending"

CallsOf(kind) == {c \in DOMAIN calls : calls[c].kind = kind}

Latest(S) == CHOOSE c \in S : \A d \in S : d <= c

\* isLoading of a mutation hook: its most recent call is still pending
MutationLoading(kind) ==
    CallsOf(kind) # {} /\ calls[Latest(CallsOf(kind))].status = "pending"

createLoading == MutationLoading("create")
updateLoading == MutationLoading("update")

\* the <form> is on screen: mounted and past "if (teamLoading) return <Loader />"
FormRendered == mounted /\ ~teamLoading

\* the submit button's disabled attribute
SubmitDisabled == createLoading \/ updateLoading

-----------------------------------------------------------------------------
(* Initial state *)

Records ==
    [ name : FetchedTexts, designation : {TextUndef}, department : {"Sales"},
      description : {TextUndef}, image : ImageRefs ]

NoRecord ==
    [ name |-> TextUndef, designation |-> TextUndef, department |-> TextUndef,
      description |-> TextUndef, image |-> JsNull ]

Init ==
    /\ id \in {NoId, "42"}
    /\ teamRecord \in (IF id = NoId THEN {NoRecord} ELSE Records)
    /\ fetchStatus = IF id = NoId THEN "skipped" ELSE "pending"
    /\ mounted = TRUE
    /\ crashed = FALSE
    /\ formValues = DefaultValues
    /\ fileInput = NoFile
    /\ existingImage = JsNull
    /\ imagePreview = NoPreview
    /\ errors = NoErrors
    /\ readers = << >>
    /\ tasks = << >>
    /\ calls = << >>
    /\ toasts = << >>
    /\ navs = << >>

-----------------------------------------------------------------------------
(* Record query *)

\* The component's own state (useState, useForm, the DOM input) exists only
\* while it is mounted: unmounting discards it.
formState == << formValues, fileInput, existingImage, imagePreview, errors >>

Discarded ==
    /\ formValues' = DefaultValues
    /\ fileInput' = NoFile
    /\ existingImage' = JsNull
    /\ imagePreview' = NoPreview
    /\ errors' = NoErrors

\* The query resolves.  A mounted form re-renders, the record effect resets
\* the form (which also empties the DOM file input) and stores existingImage,
\* and the preview effect runs on the new watchedImage; an effect that throws
\* makes React unmount the tree.
FetchSuccess ==
    /\ fetchStatus = "pending"
    /\ fetchStatus' = "success"
    /\ IF mounted
       THEN LET vals == ResetValues(id, teamRecord)
                eff == PreviewEffect(vals.image, readers, imagePreview)
            IN /\ readers' = eff.readers
               /\ crashed' = eff.threw
               /\ mounted' = ~eff.threw
               /\ IF eff.threw
                  THEN Discarded
                  ELSE /\ formValues' = vals
                       /\ fileInput' = NoFile
                       /\ existingImage' = ExistingImageOf(teamRecord.image)
                       /\ imagePreview' = eff.preview
                       /\ errors' = NoErrors
       ELSE UNCHANGED << formState, readers, crashed, mounted >>
    /\ UNCHANGED << id, teamRecord, tasks, calls, toasts, navs >>

\* The query fails: isLoading becomes false with no data, the effect's
\* condition is false and the form renders with its defaults.
FetchError ==
    /\ fetchStatus = "pending"
    /\ fetchStatus' = "error"
    /\ UNCHANGED << id, teamRecord, mounted, crashed, formState, readers,
                    tasks, calls, toasts, navs >>

-----------------------------------------------------------------------------
(* User input *)

TextFields == {"name", "designation", "department", "description"}

\* the fields the exploration types into; the other three keep the value the
\* form was initialised with
EditedFields == {"name"}

SetField(f, v) ==
    /\ FormRendered
    /\ formValues[f] # v
    /\ formValues' = [formValues EXCEPT ![f] = v]
    /\ UNCHANGED << id, teamRecord, fetchStatus, mounted, crashed,
                    fileInput, existingImage, imagePreview, errors, readers,
                    tasks, calls, toasts, navs >>

\* the user picks a local file: the field value becomes the input's FileList
\* and the preview effect starts a read
SelectFile(f) ==
    /\ FormRendered
    /\ fileInput # f
    /\ Len(readers) < MaxReads
    /\ LET eff == PreviewEffect(FileList(f), readers, imagePreview)
       IN /\ fileInput' = f
          /\ formValues' = [formValues EXCEPT !.image = FileList(f)]
          /\ imagePreview' = eff.preview
          /\ readers' = eff.readers
    /\ UNCHANGED << id, teamRecord, fetchStatus, mounted, crashed,
                    existingImage, errors, tasks, calls, toasts, navs >>

\* the user empties the selection: the field value is an empty FileList and
\* the preview effect clears the preview
ClearFile ==
    /\ FormRendered
    /\ fileInput # NoFile
    /\ LET eff == PreviewEffect(EmptyFileList, readers, imagePreview)
       IN /\ fileInput' = NoFile
          /\ formValues' = [formValues EXCEPT !.image = EmptyFileList]
          /\ imagePreview' = eff.preview
          /\ readers' = eff.readers
    /\ UNCHANGED << id, teamRecord, fetchStatus, mounted, crashed,
                    existingImage, errors, tasks, calls, toasts, navs >>

RemoveAt(s, i) == SubSeq(s, 1, i - 1) \o SubSeq(s, i + 1, Len(s))

\* reader.onloadend: setImagePreview(reader.result); the result is null when
\* the read failed, and a state update of an unmounted component is dropped
ReadDone(i, ok) ==
    /\ i \in DOMAIN readers
    /\ readers' = RemoveAt(readers, i)
    /\ imagePreview' = IF mounted
                       THEN (IF ok THEN readers[i] ELSE NoPreview)
                       ELSE imagePreview
    /\ UNCHANGED << id, teamRecord, fetchStatus, mounted, crashed,
                    formValues, fileInput, existingImage, errors, tasks, calls,
                    toasts, navs >>

-----------------------------------------------------------------------------
(* Submission *)

\* A submit event reaches handleSubmit(onSubmit): the button is enabled and
\* the browser's own check of the "required" name input passes.  The resolver
\* is started on the current values; its result arrives later.
SubmitTrigger ==
    /\ FormRendered
    /\ ~SubmitDisabled
    /\ formValues.name # ""
    /\ Len(tasks) < MaxSubmits
    /\ tasks' = Append(tasks, [pc |-> "validating", values |-> formValues,
                               selected |-> fileInput, errors |-> NoErrors])
    /\ UNCHANGED << id, teamRecord, fetchStatus, mounted, crashed, formState,
                    readers, calls, toasts, navs >>

\* The resolver's result arrives.  Errors block the submission; otherwise
\* onSubmit runs up to its await: it builds the payload and issues the call.
ValidationDone(t) ==
    /\ t \in DOMAIN tasks
    /\ tasks[t].pc = "validating"
    /\ LET errs == Validate(tasks[t].values)
       IN IF errs = NoErrors
          THEN /\ tasks' = [tasks EXCEPT ![t].pc = "awaiting"]
               /\ calls' = calls \o DispatchCall(id, BuildPayload(tasks[t].values), t)
               /\ errors' = IF mounted THEN NoErrors ELSE errors
          ELSE /\ tasks' = [tasks EXCEPT ![t].pc = "invalid", ![t].errors = errs]
               /\ calls' = calls
               /\ errors' = IF mounted THEN errs ELSE errors
    /\ UNCHANGED << id, teamRecord, fetchStatus, mounted, crashed,
                    formValues, fileInput, existingImage, imagePreview, readers,
                    toasts, navs >>

\* The call resolves: onSubmit continues after its await with the success
\* toast and navigate("/team"), which unmounts a form that is still mounted.
CallResolve(c) ==
    /\ c \in DOMAIN calls
    /\ calls[c].status = "pending"
    /\ calls' = [calls EXCEPT ![c].status = "fulfilled"]
    /\ tasks' = [tasks EXCEPT ![calls[c].task].pc = "done"]
    /\ toasts' = Append(toasts, [kind |-> "success", text |-> SuccessText(calls[c].kind)])
    /\ navs' = Append(navs, [cause |-> "submit", task |-> calls[c].task])
    /\ mounted' = FALSE
    /\ Discarded
    /\ UNCHANGED << id, teamRecord, fetchStatus, crashed, readers >>

\* The call rejects: the catch block shows the error toast.
CallReject(c, msg) ==
    /\ c \in DOMAIN calls
    /\ calls[c].status = "pending"
    /\ calls' = [calls EXCEPT ![c].status = "rejected", ![c].message = msg]
    /\ tasks' = [tasks EXCEPT ![calls[c].task].pc = "failed"]
    /\ toasts' = Append(toasts, [kind |-> "error", text |-> ErrorText(msg)])
    /\ UNCHANGED << id, teamRecord, fetchStatus, mounted, crashed, formState,
                    readers, navs >>

-----------------------------------------------------------------------------
(* Leaving the form *)

\* the Cancel button: navigate("/team")
Cancel ==
    /\ FormRendered
    /\ navs' = Append(navs, [cause |-> "cancel", task |-> 0])
    /\ mounted' = FALSE
    /\ Discarded
    /\ UNCHANGED << id, teamRecord, fetchStatus, crashed, readers, tasks,
                    calls, toasts >>

\* the route changes by other means (a link outside the form, the back
\* button) and the router unmounts the component
RouteChange ==
    /\ mounted
    /\ mounted' = FALSE
    /\ Discarded
    /\ UNCHANGED << id, teamRecord, fetchStatus, crashed, readers, tasks,
                    calls, toasts, navs >>

-----------------------------------------------------------------------------

Next ==
    \/ FetchSuccess
    \/ FetchError
    \/ \E f \in EditedFields, v \in TextValues : SetField(f, v)
    \/ \E f \in Files : SelectFile(f)
    \/ ClearFile
    \/ \E i \in 1..MaxReads, ok \in BOOLEAN : ReadDone(i, ok)
    \/ SubmitTrigger
    \/ \E t \in 1..MaxSubmits : ValidationDone(t)
    \/ \E c \in 1..MaxSubmits : CallResolve(c)
    \/ \E c \in 1..MaxSubmits, msg \in ServerMessages : CallReject(c, msg)
    \/ Cancel
    \/ RouteChange

Spec == Init /\ [][Next]_vars

-----------------------------------------------------------------------------
(* Properties *)

CallsOfTask(t) == {c \in DOMAIN calls : calls[c].task = t}

Pending == {c \in DOMAIN calls : calls[c].status = "pending"}

\* the calls whose effect the server has applied and acknowledged
Applied == {c \in DOMAIN calls : calls[c].status = "fulfilled"}

\* the form edits a record that has an id and a stored image
EditWithStoredImage ==
    id # NoId /\ fetchStatus = "success" /\ Truthy(teamRecord.image)

\* a value of the image field that holds nothing
EmptyValue(x) == ~Truthy(x) \/ (x.kind = "files" /\ x.len = 0)

Cancelled == \E n \in DOMAIN navs : navs[n].cause = "cancel"

\* C1: a submit's validation fails on the image field, with "Image is
\* required" and without any create/update call, exactly when the file input
\* holds no file and the form is not the edit of a record that has both an id
\* and a stored image; in every other case the image field passes.
C1_ImageRequiredRule ==
    \A t \in DOMAIN tasks :
        tasks[t].pc # "validating" =>
            /\ tasks[t].errors.image \in {"", "Image is required"}
            /\ (tasks[t].errors.image = "Image is required")
                   <=> (tasks[t].selected = NoFile /\ ~EditWithStoredImage)
            /\ tasks[t].errors.image # "" =>
                   (tasks[t].pc = "invalid" /\ CallsOfTask(t) = {})

\* create mode, no image selected: the submit is blocked with the message
C1_Witness ==
    \E t \in DOMAIN tasks :
        /\ id = NoId
        /\ tasks[t].selected = NoFile
        /\ tasks[t].pc = "invalid"
        /\ tasks[t].errors.image = "Image is required"

\* C2: the payload of every call holds an image field exactly when the file
\* input held a file the user had selected when the submit was triggered, and
\* then it is that file; an edit submitted without a new file sends no image.
C2_ImageFieldIffNewFile ==
    \A c \in DOMAIN calls :
        LET t == tasks[calls[c].task]
        IN /\ (calls[c].payload.image # NoImage) <=> (t.selected # NoFile)
           /\ t.selected # NoFile => calls[c].payload.image = t.selected

\* an edit of a record whose image is an object, submitted with no new file
C2_Witness ==
    \E c \in DOMAIN calls :
        /\ calls[c].kind = "update"
        /\ teamRecord.image.kind = "object"
        /\ tasks[calls[c].task].selected = NoFile
        /\ calls[c].payload.image = NoImage

\* C3: a submission attempt that passed validation has issued exactly one
\* call, create without an id and update with one; an attempt still
\* validating or blocked has issued none; and the attempt navigates to the
\* listing only once its call is fulfilled.
C3_OneCallThenNavigate ==
    /\ \A t \in DOMAIN tasks :
          /\ tasks[t].pc \in {"validating", "invalid"} => CallsOfTask(t) = {}
          /\ tasks[t].pc \in {"awaiting", "done", "failed"} =>
                /\ Cardinality(CallsOfTask(t)) = 1
                /\ \A c \in CallsOfTask(t) :
                      /\ calls[c].kind = (IF id = NoId THEN "create" ELSE "update")
                      /\ calls[c].id = id
    /\ \A n \in DOMAIN navs :
          navs[n].cause = "submit" =>
              /\ \A c \in CallsOfTask(navs[n].task) : calls[c].status = "fulfilled"
              /\ CallsOfTask(navs[n].task) # {}
              /\ \A m \in DOMAIN navs : navs[m] = navs[n] => m = n

\* a submission has navigated to the listing after its call was fulfilled
C3_Witness ==
    \E n \in DOMAIN navs, c \in DOMAIN calls :
        /\ navs[n].cause = "submit"
        /\ calls[c].task = navs[n].task
        /\ calls[c].status = "fulfilled"

\* C4: the step in which a call rejects shows one error toast with the
\* server's message, or the generic one when there is none, navigates
\* nowhere, changes no field, existing image or preview, and leaves the form
\* Ready (the submit button enabled again).
C4_RejectionReturnsToReady ==
    [][ \A c \in DOMAIN calls :
            (calls[c].status = "pending" /\ calls'[c].status = "rejected") =>
                /\ toasts' = Append(toasts,
                       [kind |-> "error",
                        text |-> IF calls'[c].message = NoMessage
                                 THEN "Failed to save team member"
                                 ELSE calls'[c].message])
                /\ navs' = navs
                /\ formState' = formState
                /\ ~SubmitDisabled' ]_vars

\* C5: once the form is torn down, no late completion sets the preview,
\* shows a toast or navigates.
C5_NoEffectAfterTeardown ==
    [][ ~mounted =>
            /\ imagePreview' = imagePreview
            /\ toasts' = toasts
            /\ navs' = navs ]_vars

\* C6: while the file input holds no file, the preview is null (so the
\* existing image is shown without the replacement note).
C6_ClearedPreviewStaysNull ==
    (mounted /\ fileInput = NoFile) => imagePreview = NoPreview

\* C7: in edit mode the form is on screen only after the fetch has succeeded
\* and the fields were initialised from the record.
C7_EditFormOnlyAfterFetch ==
    (FormRendered /\ id # NoId) =>
        (fetchStatus = "success" /\ formValues.id = id)

\* C8: after Cancel no call of the abandoned form is applied on the server
\* and the form produces no further toast or navigation.
C8_CancelAbandonsSubmission ==
    [][ Cancelled =>
            /\ Applied' = Applied
            /\ toasts' = toasts
            /\ navs' = navs ]_vars

\* C9: the image field of the form is empty or holds the file the user
\* selected in the file input, never the server's image reference.
C9_ImageFieldOnlyLocalFile ==
    \/ EmptyValue(formValues.image)
    \/ (formValues.image.kind = "files" /\ formValues.image.v = fileInput)

\* C10: at most one create/update call of the form is in flight.
C10_AtMostOneCallInFlight ==
    Cardinality(Pending) <= 1

=============================================================================
